---- MODULE Spec2Model ----
(***************************************************************************)
(* Infinite-undo service of the cognitive exocortex server                 *)
(* (src/server/services/infinite_undo.py): the version catalog             *)
(* (table file_versions), the content-addressed blob store, the live       *)
(* files, and the operations record_version, restore_version, time_travel  *)
(* and cleanup_old_versions.                                               *)
(***************************************************************************)
EXTENDS Integers, Sequences, FiniteSets, TLC

(***************************************************************************)
(* Bounds of the model.                                                    *)
(***************************************************************************)
MaxRows == 3
MaxTime == 2
MaxKeep == 2
MaxSweepRows == 4
MaxConcRows == 2
MaxShareRows == 3
MaxLimit == 2
MaxRestoreRows == 3
MaxRestoreTime == 1
MaxCopyRows == 3
MaxRaceRows == 3
MaxGapRows == 4
MaxCrashRows == 3
MaxStepRows == 3
MaxViewRows == 3
MaxPathRows == 3

(***************************************************************************)
(* Values.  Strings (paths, file bytes) are sequences of characters.       *)
(* SQL NULL and Python None are the empty tuple.                           *)
(***************************************************************************)
NULL == <<>>

PathA == <<"d", "a">>
PathB == <<"e", "b">>
Paths == {PathA, PathB}
Directories == {<<"d">>, <<>>}

ContentX == <<"x">>
ContentY == <<"y", "y">>
Contents == {ContentX, ContentY}

NoFile == [exists |-> FALSE, bytes |-> <<>>]
File(bytes) == [exists |-> TRUE, bytes |-> bytes]

Max(S) == CHOOSE x \in S : \A y \in S : y <= x

\* hashlib.sha256(...).hexdigest(): injective on the contents of the model
Sha256(bytes) == <<"sha256", bytes>>

\* uuid of a row (column default of file_versions.id)
Uuid(n) == <<"uuid", n>>

\* a Python int where the same slot may hold a UUID
PyInt(n) == <<"int", n>>

\* datetime.isoformat()
IsoFormat(t) == <<"iso", t>>

\* json.dumps(metadata) if metadata else None
JsonDumps(metadata) == IF metadata = NULL THEN NULL ELSE <<"json", metadata>>

VARIABLES
    file_versions,  \* the catalog: set of rows of table file_versions
    store,          \* blob store: storage location -> file
    live,           \* live files: path -> file
    now,            \* wall clock (days)
    next_id,        \* next row id the database hands out
    rec,            \* per worker: the record_version call it is inside
    resp,           \* the last call and what it returned
    chain,          \* per path: the run of changing-content records since the empty history
    scen            \* progress of the a.txt scenario

vars == <<file_versions, store, live, now, next_id, rec, resp, chain, scen>>

----------------------------------------------------------------------------
(***************************************************************************)
(* Helpers of InfiniteUndoService and the queries it sends.                *)
(***************************************************************************)
RowsOf(fv, file_path) == {r \in fv : r.file_path = file_path}

\* _compute_hash: None when the file cannot be opened
ComputeHash(lv, file_path) ==
    IF lv[file_path].exists THEN Sha256(lv[file_path].bytes) ELSE NULL

\* os.path.getsize(file_path) if os.path.exists(file_path) else 0
GetSize(lv, file_path) ==
    IF lv[file_path].exists THEN Len(lv[file_path].bytes) ELSE 0

\* one storage path for every digest
StoragePathFlat(content_hash) == <<"versions", Sha256(ContentX)>>

\* _get_storage_path: a function of the digest only
StoragePath(content_hash) == <<"versions", content_hash>>

BlobLocations == {StoragePath(Sha256(c)) : c \in Contents}

\* a dedup query that never finds the content
DedupQueryNone(fv, file_path, content_hash) == {NULL}

\* a dedup query in which a missing digest equals a missing digest
DedupQueryNullEqual(fv, file_path, content_hash) ==
    LET m == {r \in RowsOf(fv, file_path) : r.content_hash = content_hash}
        top == {r \in m : \A q \in m : q.version_number <= r.version_number}
    IN  IF m = {} THEN {NULL} ELSE {r.id : r \in top}

\* SELECT id ... WHERE file_path = $1 AND content_hash = $2
\* ORDER BY version_number DESC LIMIT 1: the values fetchval may return
\* (content_hash = NULL matches no row)
DedupQuery(fv, file_path, content_hash) ==
    LET m == {r \in RowsOf(fv, file_path) :
                 content_hash # NULL /\ r.content_hash = content_hash}
        top == {r \in m : \A q \in m : q.version_number <= r.version_number}
    IN  IF m = {} THEN {NULL} ELSE {r.id : r \in top}

\* the operations exempt from deduplication
DedupExempt == {"delete", "rename"}

\* SELECT COALESCE(MAX(version_number), 0) ... WHERE file_path = $1
MaxVersionQuery(fv, file_path) ==
    LET vs == {r.version_number : r \in RowsOf(fv, file_path)}
    IN  IF vs = {} THEN 0 ELSE Max(vs)

NextVersion(fv, file_path) == MaxVersionQuery(fv, file_path) + 1

\* a storage location given to every row, whether a file was read or not
StorageLocationAlways(lv, file_path, content_hash) ==
    StoragePath(Sha256(ContentX))

\* a storage location chosen by the path, not by the digest
StorageLocationPerPath(lv, file_path, content_hash) ==
    IF content_hash # NULL /\ lv[file_path].exists
    THEN (IF file_path = PathA THEN StoragePath(Sha256(ContentX))
                               ELSE StoragePath(Sha256(ContentY)))
    ELSE NULL

\* storage_location of the new row
StorageLocation(lv, file_path, content_hash) ==
    IF content_hash # NULL /\ lv[file_path].exists
    THEN StoragePath(content_hash) ELSE NULL

\* a recorder that never copies the file into the store
StoreBlobSkipped(st, lv, file_path, storage_location) == st

\* shutil.copy2(file_path, storage_location) unless the blob is there
StoreBlob(st, lv, file_path, storage_location) ==
    IF storage_location # NULL /\ ~st[storage_location].exists
    THEN [st EXCEPT ![storage_location] = lv[file_path]]
    ELSE st

\* what shutil.copy2 may leave at its destination when the process dies
\* while it writes: the file created, with a proper prefix of the bytes
Truncations(bytes) == {SubSeq(bytes, 1, n) : n \in 0..(Len(bytes) - 1)}

\* table file_versions: id and timestamp are filled by column defaults, and
\* (file_path, version_number) is indexed, not unique
ColumnDefaults(nid, t) == [id |-> Uuid(nid), timestamp |-> t]
SchemaRejects(fv, file_path, version_number) == FALSE

\* an INSERT that replaces the rows the path had
InsertRowReplacing(fv, nid, t, file_path, version_number, operation, content_hash, storage_location, file_size, metadata_json) ==
    {r \in fv : r.file_path # file_path}
        \cup {[id |-> ColumnDefaults(nid, t).id, file_path |-> file_path,
               version_number |-> version_number, operation |-> operation,
               content_hash |-> content_hash,
               storage_location |-> storage_location,
               file_size |-> file_size,
               timestamp |-> ColumnDefaults(nid, t).timestamp,
               metadata |-> metadata_json]}

\* an INSERT that leaves only the rows of its own path
InsertRowAlone(fv, nid, t, file_path, version_number, operation, content_hash, storage_location, file_size, metadata_json) ==
    {r \in fv : r.file_path = file_path}
        \cup {[id |-> ColumnDefaults(nid, t).id, file_path |-> file_path,
               version_number |-> version_number, operation |-> operation,
               content_hash |-> content_hash,
               storage_location |-> storage_location,
               file_size |-> file_size,
               timestamp |-> ColumnDefaults(nid, t).timestamp,
               metadata |-> metadata_json]}

\* INSERT INTO file_versions ... RETURNING id
InsertRow(fv, nid, t, file_path, version_number, operation, content_hash, storage_location, file_size, metadata_json) ==
    fv \cup {[id |-> ColumnDefaults(nid, t).id, file_path |-> file_path,
              version_number |-> version_number, operation |-> operation,
              content_hash |-> content_hash,
              storage_location |-> storage_location,
              file_size |-> file_size,
              timestamp |-> ColumnDefaults(nid, t).timestamp,
              metadata |-> metadata_json]}

\* where a database round-trip of record_version may raise
Faults == {"none", "dedup", "max", "insert"}

\* where the file system may fail it: the file cannot be read (the hash is
\* None), the blob cannot be written (shutil.copy2 raises)
IoFaults == {"read", "copy"}

\* an exception on its way out of a call
Raised == <<"raised", "Exception">>

\* the try block of record_version, run to its end: the set of its possible
\* outcomes, exc telling that an exception left the block
RecordBody(fv, st, lv, nid, t, file_path, operation, metadata, fault) ==
    LET content_hash == IF fault = "read" THEN NULL ELSE ComputeHash(lv, file_path)
        file_size == GetSize(lv, file_path)
        raised == [fv |-> fv, store |-> st, next_id |-> nid, ret |-> NULL, exc |-> TRUE]
        storage_location == StorageLocation(lv, file_path, content_hash)
        st2 == StoreBlob(st, lv, file_path, storage_location)
    IN  IF fault = "dedup" THEN {raised}
        ELSE UNION {
            IF existing # NULL /\ operation \notin DedupExempt
            THEN {[fv |-> fv, store |-> st, next_id |-> nid, ret |-> existing, exc |-> FALSE]}
            ELSE IF fault = "max" THEN {raised}
            ELSE IF fault = "copy" /\ st2 # st THEN {raised}
            ELSE IF \/ fault = "insert"
                    \/ SchemaRejects(fv, file_path, NextVersion(fv, file_path))
                 THEN {[raised EXCEPT !.store = st2]}
            ELSE {[fv |-> InsertRow(fv, nid, t, file_path,
                                    NextVersion(fv, file_path), operation,
                                    content_hash, storage_location, file_size,
                                    JsonDumps(metadata)),
                   store |-> st2, next_id |-> nid + 1, ret |-> Uuid(nid), exc |-> FALSE]}
            : existing \in DedupQuery(fv, file_path, content_hash)}

\* an except clause that lets the exception through
ExceptReraise(o) == [o EXCEPT !.ret = IF o.exc THEN Raised ELSE o.ret]

\* except Exception: return None
ExceptReturnNone(o) == [o EXCEPT !.ret = IF o.exc THEN NULL ELSE o.ret]

\* record_version, run to completion: the set of its possible outcomes
RecordOutcomes(fv, st, lv, nid, t, file_path, operation, metadata, fault) ==
    {ExceptReturnNone(o) :
        o \in RecordBody(fv, st, lv, nid, t, file_path, operation, metadata, fault)}

----------------------------------------------------------------------------
(***************************************************************************)
(* restore_version                                                         *)
(***************************************************************************)
\* Optional[int] / Optional[datetime] arguments: <<>> is None, <<n>> is n
Some(n) == <<n>>

\* "if target_version:" -- None and 0 are both falsy
Truthy(target_version) == target_version # NULL /\ target_version[1] # 0

\* a selector that takes any row of the path
ResolveTargetAny(fv, file_path, target_version, target_timestamp) ==
    RowsOf(fv, file_path)

\* a selector that takes the latest row when no version is asked for
ResolveTargetLatest(fv, file_path, target_version, target_timestamp) ==
    IF target_version # NULL
    THEN {r \in RowsOf(fv, file_path) : r.version_number = target_version[1]}
    ELSE {r \in RowsOf(fv, file_path) :
             r.version_number = MaxVersionQuery(fv, file_path)}

\* the rows fetchrow may return for the selector ({} when it returns None)
ResolveTarget(fv, file_path, target_version, target_timestamp) ==
    LET rows == RowsOf(fv, file_path)
    IN  IF Truthy(target_version)
        THEN {r \in rows : r.version_number = target_version[1]}
        ELSE IF target_timestamp # NULL
        THEN \* WHERE timestamp <= $2 ORDER BY timestamp DESC LIMIT 1
             LET m == {r \in rows : r.timestamp <= target_timestamp[1]}
             IN  {r \in m : \A q \in m : q.timestamp <= r.timestamp}
        ELSE \* ORDER BY version_number DESC OFFSET 1 LIMIT 1
             {r \in rows :
                /\ Cardinality({q \in rows : q.version_number > r.version_number}) <= 1
                /\ Cardinality({q \in rows : q.version_number >= r.version_number}) >= 2}

RestoredFrom(version_number) == <<"restored_from_version", version_number>>

\* what may fail inside restore_version: the query that resolves the row,
\* the pre_restore record, the copy over the live file, the restore record
NoFaults == [query |-> FALSE, pre |-> "none", copy |-> FALSE, post |-> "none"]

RestoreFaults ==
    [query : BOOLEAN, pre : {"none", "read", "dedup", "insert"},
     copy : BOOLEAN, post : {"none", "insert"}]

\* the result of a restore_version that touched nothing
Untouched(fv, st, lv, nid, resolved, success, restored_version, message, exc) ==
    [state |-> [fv |-> fv, store |-> st, live |-> lv, next_id |-> nid],
     success |-> success, restored_version |-> restored_version,
     message |-> message, exc |-> exc, resolved |-> resolved,
     overwrote |-> FALSE, at_copy |-> {}]

\* the try block of restore_version, run to its end: the set of its
\* possible outcomes.  resolved holds the row the selector gave, overwrote
\* tells that the live file was written, at_copy holds the catalog and the
\* store as they were when it was written.
RestoreBody(fv, st, lv, nid, t, file_path, target_version, target_timestamp, faults) ==
    LET cands == ResolveTarget(fv, file_path, target_version, target_timestamp)
    IN  IF faults.query
        THEN {Untouched(fv, st, lv, nid, {}, FALSE, 0, "Error restoring", TRUE)}
        ELSE IF cands = {}
        THEN {Untouched(fv, st, lv, nid, {}, FALSE, 0, "No version found to restore", FALSE)}
        ELSE UNION {
            IF row.storage_location # NULL /\ st[row.storage_location].exists
            THEN UNION {
                   IF faults.copy
                   THEN {[state |-> [fv |-> pre.fv, store |-> pre.store,
                                     live |-> lv, next_id |-> pre.next_id],
                          success |-> FALSE, restored_version |-> 0,
                          message |-> "Error restoring", exc |-> TRUE,
                          resolved |-> {row}, overwrote |-> FALSE, at_copy |-> {}]}
                   ELSE LET \* shutil.copy2(storage_location, file_path)
                            lv2 == [lv EXCEPT ![file_path] = pre.store[row.storage_location]]
                        IN  {[state |-> [fv |-> post.fv, store |-> post.store,
                                         live |-> lv2, next_id |-> post.next_id],
                              success |-> TRUE,
                              restored_version |-> row.version_number,
                              message |-> "Restored to version", exc |-> FALSE,
                              resolved |-> {row}, overwrote |-> TRUE,
                              at_copy |-> {[fv |-> pre.fv, store |-> pre.store]}]
                             : post \in RecordOutcomes(pre.fv, pre.store, lv2, pre.next_id, t,
                                                       file_path, "restore",
                                                       RestoredFrom(row.version_number),
                                                       faults.post)}
                   : pre \in RecordOutcomes(fv, st, lv, nid, t, file_path,
                                            "pre_restore", NULL, faults.pre)}
            ELSE {Untouched(fv, st, lv, nid, {row}, FALSE, row.version_number,
                            "Version content not found in storage", FALSE)}
            : row \in cands}

\* an except clause that reports the call as done
ExceptRestoreQuiet(o) == [o EXCEPT !.success = TRUE]

\* except Exception as e: UndoResponse(success=False, restored_version=0, ...)
ExceptRestore(o) ==
    IF o.exc
    THEN [o EXCEPT !.success = FALSE, !.restored_version = 0,
                   !.message = "Error restoring"]
    ELSE o

\* restore_version, run to completion: the set of its possible outcomes
RestoreOutcomes(fv, st, lv, nid, t, file_path, target_version, target_timestamp, faults) ==
    {ExceptRestore(o) :
        o \in RestoreBody(fv, st, lv, nid, t, file_path, target_version,
                          target_timestamp, faults)}

----------------------------------------------------------------------------
(***************************************************************************)
(* time_travel                                                             *)
(***************************************************************************)
\* SQL LIKE: % matches any string, _ any one character
RECURSIVE Like(_, _)
Like(s, pattern) ==
    IF pattern = <<>> THEN s = <<>>
    ELSE IF Head(pattern) = "%"
    THEN Like(s, Tail(pattern)) \/ (s # <<>> /\ Like(Tail(s), pattern))
    ELSE /\ s # <<>>
         /\ (Head(pattern) = "_" \/ Head(pattern) = Head(s))
         /\ Like(Tail(s), Tail(pattern))

CharRank(c) ==
    CASE c = "_" -> 1 [] c = "a" -> 2 [] c = "b" -> 3 [] c = "d" -> 4
      [] c = "e" -> 5 [] OTHER -> 0

\* ORDER BY file_path
RECURSIVE StrLess(_, _)
StrLess(a, b) ==
    IF b = <<>> THEN FALSE
    ELSE IF a = <<>> THEN TRUE
    ELSE IF Head(a) = Head(b) THEN StrLess(Tail(a), Tail(b))
    ELSE CharRank(Head(a)) < CharRank(Head(b))

\* an ORDER BY file_path DESC
RECURSIVE SortPathsDesc(_)
SortPathsDesc(S) ==
    IF S = {} THEN <<>>
    ELSE LET x == CHOOSE x \in S : \A y \in S \ {x} : StrLess(y, x)
         IN  <<x>> \o SortPathsDesc(S \ {x})

RECURSIVE SortPaths(_)
SortPaths(S) ==
    IF S = {} THEN <<>>
    ELSE LET x == CHOOSE x \in S : \A y \in S \ {x} : StrLess(x, y)
         IN  <<x>> \o SortPaths(S \ {x})

\* the same rows without the "timestamp <= $2" condition
TimeTravelMatchesNoCutoff(fv, directory, target_time) ==
    {r \in fv : Like(r.file_path, directory \o <<"%">>)}

\* the rows the SELECT DISTINCT ON (file_path) ... considers
TimeTravelMatches(fv, directory, target_time) ==
    {r \in fv : Like(r.file_path, directory \o <<"%">>) /\ r.timestamp <= target_time}

\* time_travel: the set of its possible results
TimeTravelOutcomes(fv, directory, target_time) ==
    LET m == TimeTravelMatches(fv, directory, target_time)
        paths == {r.file_path : r \in m}
        \* ORDER BY file_path, version_number DESC: first row of each path
        Top(p) == {r \in m : /\ r.file_path = p
                             /\ \A q \in m : q.file_path = p =>
                                    q.version_number <= r.version_number}
        order == SortPaths(paths)
        picks == {f \in [paths -> m] : \A p \in paths : f[p] \in Top(p)}
    IN  {[directory |-> directory,
          as_of |-> IsoFormat(target_time),
          files |-> [i \in 1..Len(order) |->
                       [file_path |-> f[order[i]].file_path,
                        version |-> f[order[i]].version_number,
                        size |-> f[order[i]].file_size,
                        timestamp |-> IsoFormat(f[order[i]].timestamp)]],
          file_count |-> Len(order)] : f \in picks}

----------------------------------------------------------------------------
(***************************************************************************)
(* cleanup_old_versions                                                    *)
(***************************************************************************)
\* datetime.now() - timedelta(days=days_to_keep)
CutoffDate(t, days_to_keep) == t - days_to_keep

\* a to_delete that looks at the age alone
ToDeleteByAge(fv, cutoff_date, max_versions_per_file) ==
    {r \in fv : r.timestamp < cutoff_date}

\* a to_delete that spares the first version of every path
ToDeleteSparingFirst(fv, cutoff_date, max_versions_per_file) ==
    {r \in fv : /\ r.timestamp < cutoff_date
                /\ r.version_number > 1
                /\ r.version_number <
                      MaxVersionQuery(fv, r.file_path) - max_versions_per_file}

\* a to_delete whose version bound takes the row numbered MAX - k as well
ToDeleteInclusive(fv, cutoff_date, max_versions_per_file) ==
    {r \in fv : /\ r.timestamp < cutoff_date
                /\ r.version_number <=
                      MaxVersionQuery(fv, r.file_path) - max_versions_per_file}

\* the CTE to_delete
ToDelete(fv, cutoff_date, max_versions_per_file) ==
    {r \in fv : /\ r.timestamp < cutoff_date
                /\ r.version_number <
                      MaxVersionQuery(fv, r.file_path) - max_versions_per_file}

\* fetchval of DELETE ... RETURNING id: the id of the first deleted row, or None
DeleteReturning(deleted) ==
    IF deleted = {} THEN {NULL} ELSE {r.id : r \in deleted}

\* "deleted_count or 0"
DeletedVersions(deleted_count) ==
    IF deleted_count = NULL THEN PyInt(0) ELSE deleted_count

\* a sweep that also removes the blobs of the rows it deleted
SweepStoreOrphans(st, deleted) ==
    [l \in DOMAIN st |->
        IF \E r \in deleted : r.storage_location = l THEN NoFile ELSE st[l]]

\* "TODO: Also clean up orphaned storage files": the sweep touches no blob
SweepStore(st, deleted) == st

\* cleanup_old_versions: the set of its possible outcomes
CleanupOutcomes(fv, t, days_to_keep, max_versions_per_file) ==
    LET cutoff_date == CutoffDate(t, days_to_keep)
        deleted == ToDelete(fv, cutoff_date, max_versions_per_file)
    IN  {[fv |-> fv \ deleted,
          deleted_versions |-> DeletedVersions(deleted_count),
          cutoff_date |-> IsoFormat(cutoff_date)]
         : deleted_count \in DeleteReturning(deleted)}

----------------------------------------------------------------------------
(***************************************************************************)
(* get_history                                                             *)
(***************************************************************************)
\* json.loads(row["metadata"]) if row["metadata"] else None
JsonLoads(metadata_json) == IF metadata_json = NULL THEN NULL ELSE metadata_json[2]

\* SELECT COUNT(*) FROM file_versions WHERE file_path = $1
CountQuery(fv, file_path) == Cardinality(RowsOf(fv, file_path))

\* ORDER BY version_number DESC: the orders the database may return
DescOrders(rows) ==
    {f \in [1..Cardinality(rows) -> rows] :
        /\ \A i, j \in 1..Cardinality(rows) : f[i] = f[j] => i = j
        /\ \A i, j \in 1..Cardinality(rows) :
              i < j => f[i].version_number >= f[j].version_number}

\* a page that ignores the offset
LimitOnly(ordered, limit, offset) ==
    SubSeq(ordered, 1, IF limit < Len(ordered) THEN limit ELSE Len(ordered))

\* LIMIT $2 OFFSET $3
LimitOffset(ordered, limit, offset) ==
    SubSeq(ordered, offset + 1,
           IF offset + limit < Len(ordered) THEN offset + limit ELSE Len(ordered))

\* FileVersion(id=..., ..., metadata=metadata)
ToFileVersion(row) ==
    [id |-> row.id, file_path |-> row.file_path,
     version_number |-> row.version_number, operation |-> row.operation,
     content_hash |-> row.content_hash, file_size |-> row.file_size,
     timestamp |-> row.timestamp, metadata |-> JsonLoads(row.metadata)]

\* get_history: the set of its possible results (versions, total)
GetHistoryOutcomes(fv, file_path, limit, offset) ==
    {[versions |-> [i \in 1..Len(LimitOffset(ordered, limit, offset)) |->
                       ToFileVersion(LimitOffset(ordered, limit, offset)[i])],
      total |-> CountQuery(fv, file_path)]
     : ordered \in DescOrders(RowsOf(fv, file_path))}

----------------------------------------------------------------------------
(***************************************************************************)
(* Observers.  resp holds the last call with its arguments and results;    *)
(* chain and scen follow the calls made so far.                            *)
(***************************************************************************)
NoCall == [call |-> "none"]

SoftOps == {"create", "modify"}

\* the call being made repeats the call before it: both record_version with
\* create/modify on the same path, the first returned an id, and the file
\* holds the bytes it held then
Repeats(file_path, operation) ==
    /\ resp.call = "record_version"
    /\ resp.file_path = file_path
    /\ resp.operation \in SoftOps
    /\ operation \in SoftOps
    /\ resp.ret # NULL
    /\ resp.seen.exists
    /\ resp.seen = live[file_path]

ChainDead == [n |-> 0 - 1, last |-> NoFile]

\* chain[p].n counts the record calls (create/modify, file present, content
\* different from the call before) made on p since its history was empty,
\* when nothing else was called on p
ChainAfterRecord(file_path, operation, fault) ==
    LET c == chain[file_path]
    IN  IF /\ c.n >= 0 /\ c.n < MaxRows
           /\ operation \in SoftOps
           /\ fault = "none"
           /\ live[file_path].exists
           /\ (c.n = 0 \/ live[file_path] # c.last)
        THEN [chain EXCEPT ![file_path] = [n |-> c.n + 1, last |-> live[file_path]]]
        ELSE [chain EXCEPT ![file_path] = ChainDead]

\* the scenario: create X, modify X, modify Y on PathA, then restore previous
ScenAfterRecord(file_path, operation, fault) ==
    IF file_path = PathA /\ fault = "none"
    THEN IF scen = 0 /\ operation = "create" /\ live[PathA] = File(ContentX) THEN 1
         ELSE IF scen = 1 /\ operation = "modify" /\ live[PathA] = File(ContentX) THEN 2
         ELSE IF scen = 2 /\ operation = "modify" /\ live[PathA] = File(ContentY) THEN 3
         ELSE 0 - 1
    ELSE 0 - 1

ScenAfterRestore(file_path, target_version, target_timestamp) ==
    IF /\ scen = 3 /\ file_path = PathA
       /\ target_version = NULL /\ target_timestamp = NULL
    THEN 4 ELSE 0 - 1

----------------------------------------------------------------------------
(***************************************************************************)
(* Actions                                                                 *)
(***************************************************************************)
Workers == {"w1", "w2"}

Idle == [pc |-> "idle"]

\* the service starts on an empty catalog and an empty store
Start ==
    /\ file_versions = {}
    /\ store = [l \in BlobLocations |-> NoFile]
    /\ now = 0
    /\ next_id = 1
    /\ rec = [w \in Workers |-> Idle]
    /\ resp = NoCall

Init ==
    /\ Start
    /\ live = [p \in Paths |-> NoFile]
    /\ chain = [p \in Paths |-> [n |-> 0, last |-> NoFile]]
    /\ scen = 0

\* the same start, not following chains or the scenario
InitPlain ==
    /\ Start
    /\ live = [p \in Paths |-> NoFile]
    /\ chain = [p \in Paths |-> ChainDead]
    /\ scen = 0 - 1

\* the same, with the files already on disk
InitTravel ==
    /\ Start
    /\ live = [p \in Paths |-> File(ContentX)]
    /\ chain = [p \in Paths |-> ChainDead]
    /\ scen = 0 - 1

\* a day passes
Tick ==
    /\ now < MaxTime
    /\ now' = now + 1
    /\ UNCHANGED <<file_versions, store, live, next_id, rec, resp, chain, scen>>

\* the user saves a file
WriteFile(file_path, bytes) ==
    /\ live[file_path] # File(bytes)
    /\ live' = [live EXCEPT ![file_path] = File(bytes)]
    /\ UNCHANGED <<file_versions, store, now, next_id, rec, resp, chain, scen>>

\* the user edits a file that is there
EditFile(file_path, bytes) ==
    /\ live[file_path].exists
    /\ WriteFile(file_path, bytes)

\* the user removes a file
RemoveFile(file_path) ==
    /\ live[file_path].exists
    /\ live' = [live EXCEPT ![file_path] = NoFile]
    /\ UNCHANGED <<file_versions, store, now, next_id, rec, resp, chain, scen>>

\* what a record_version call leaves in resp
RecordResponse(file_path, operation, fault, seen, ret, added) ==
    [call |-> "record_version", file_path |-> file_path,
     operation |-> operation, fault |-> fault, seen |-> seen, ret |-> ret,
     added |-> added,
     again |-> Repeats(file_path, operation),
     prior_ret |-> IF Repeats(file_path, operation) THEN resp.ret ELSE NULL]

\* POST /versions -> InfiniteUndoService.record_version, run to completion
RecordVersion(file_path, operation, fault) ==
    /\ \E o \in RecordOutcomes(file_versions, store, live, next_id, now,
                               file_path, operation, NULL, fault) :
          /\ file_versions' = o.fv
          /\ store' = o.store
          /\ next_id' = o.next_id
          /\ resp' = RecordResponse(file_path, operation, fault,
                                    live[file_path], o.ret, o.fv \ file_versions)
    /\ chain' = ChainAfterRecord(file_path, operation, fault)
    /\ scen' = ScenAfterRecord(file_path, operation, fault)
    /\ UNCHANGED <<live, now, rec>>

\* POST /undo -> InfiniteUndoService.restore_version
RestoreVersion(file_path, target_version, target_timestamp, faults) ==
    /\ \E o \in RestoreOutcomes(file_versions, store, live, next_id, now,
                                file_path, target_version, target_timestamp,
                                faults) :
          /\ file_versions' = o.state.fv
          /\ store' = o.state.store
          /\ live' = o.state.live
          /\ next_id' = o.state.next_id
          /\ resp' = [call |-> "restore_version", file_path |-> file_path,
                      target_version |-> target_version,
                      target_timestamp |-> target_timestamp,
                      faults |-> faults,
                      success |-> o.success,
                      restored_version |-> o.restored_version,
                      message |-> o.message,
                      before |-> live[file_path],
                      after |-> o.state.live[file_path],
                      top |-> MaxVersionQuery(file_versions, file_path),
                      added |-> o.state.fv \ file_versions,
                      removed |-> file_versions \ o.state.fv,
                      stored |-> {l \in BlobLocations : o.state.store[l] # store[l]},
                      resolved |-> o.resolved,
                      overwrote |-> o.overwrote,
                      at_copy |-> o.at_copy]
    /\ chain' = [chain EXCEPT ![file_path] = ChainDead]
    /\ scen' = ScenAfterRestore(file_path, target_version, target_timestamp)
    /\ UNCHANGED <<now, rec>>

\* GET /timetravel -> InfiniteUndoService.time_travel
TimeTravel(directory, target_time) ==
    /\ \E result \in TimeTravelOutcomes(file_versions, directory, target_time) :
          resp' = [call |-> "time_travel", directory |-> directory,
                   target_time |-> target_time, result |-> result]
    /\ scen' = 0 - 1
    /\ UNCHANGED <<file_versions, store, live, now, next_id, rec, chain>>

\* InfiniteUndoService.cleanup_old_versions
CleanupOldVersions(days_to_keep, max_versions_per_file) ==
    /\ \E o \in CleanupOutcomes(file_versions, now, days_to_keep,
                                max_versions_per_file) :
          /\ file_versions' = o.fv
          /\ resp' = [call |-> "cleanup_old_versions",
                      days_to_keep |-> days_to_keep,
                      max_versions_per_file |-> max_versions_per_file,
                      result |-> [deleted_versions |-> o.deleted_versions,
                                  cutoff_date |-> o.cutoff_date],
                      removed |-> file_versions \ o.fv]
          /\ store' = SweepStore(store, file_versions \ o.fv)
    /\ chain' = [p \in Paths |-> ChainDead]
    /\ scen' = 0 - 1
    /\ UNCHANGED <<live, now, next_id, rec>>

\* GET /versions/{file_path} -> InfiniteUndoService.get_history
GetHistory(file_path, limit, offset) ==
    /\ \E o \in GetHistoryOutcomes(file_versions, file_path, limit, offset) :
          resp' = [call |-> "get_history", file_path |-> file_path,
                   limit |-> limit, offset |-> offset,
                   versions |-> o.versions, total |-> o.total]
    /\ UNCHANGED <<file_versions, store, live, now, next_id, rec, chain, scen>>

----------------------------------------------------------------------------
(***************************************************************************)
(* record_version one database round-trip at a time: other workers'        *)
(* statements and the user's edits may come between the steps.             *)
(***************************************************************************)
\* lines 53-54: hash and size of the file, then the dedup query is sent
RvStart(w, file_path, operation) ==
    /\ rec[w].pc = "idle"
    /\ rec' = [rec EXCEPT ![w] = [pc |-> "dedup", file_path |-> file_path,
                                  operation |-> operation,
                                  seen |-> live[file_path],
                                  content_hash |-> ComputeHash(live, file_path),
                                  file_size |-> GetSize(live, file_path)]]
    /\ UNCHANGED <<file_versions, store, live, now, next_id, resp, chain, scen>>

\* lines 57-65: the dedup query runs; an existing id is returned at once
RvDedup(w) ==
    /\ rec[w].pc = "dedup"
    /\ \E existing \in DedupQuery(file_versions, rec[w].file_path, rec[w].content_hash) :
          IF existing # NULL /\ rec[w].operation \notin DedupExempt
          THEN /\ rec' = [rec EXCEPT ![w] = Idle]
               /\ resp' = RecordResponse(rec[w].file_path, rec[w].operation, "none",
                                         rec[w].seen, existing, {})
          ELSE /\ rec' = [rec EXCEPT ![w].pc = "max"]
               /\ UNCHANGED resp
    /\ UNCHANGED <<file_versions, store, live, now, next_id, chain, scen>>

\* lines 68-72: the MAX(version_number) query runs
RvMax(w) ==
    /\ rec[w].pc = "max"
    /\ rec' = [rec EXCEPT ![w] =
                  [pc |-> "store", file_path |-> rec[w].file_path,
                   operation |-> rec[w].operation, seen |-> rec[w].seen,
                   content_hash |-> rec[w].content_hash,
                   file_size |-> rec[w].file_size,
                   next_version |-> NextVersion(file_versions, rec[w].file_path)]]
    /\ UNCHANGED <<file_versions, store, live, now, next_id, resp, chain, scen>>

\* lines 75-79: the blob is copied from the live file
RvStore(w) ==
    /\ rec[w].pc = "store"
    /\ LET storage_location ==
               StorageLocation(live, rec[w].file_path, rec[w].content_hash)
       IN  /\ store' = StoreBlob(store, live, rec[w].file_path, storage_location)
           /\ rec' = [rec EXCEPT ![w] =
                         [pc |-> "insert", file_path |-> rec[w].file_path,
                          operation |-> rec[w].operation, seen |-> rec[w].seen,
                          content_hash |-> rec[w].content_hash,
                          file_size |-> rec[w].file_size,
                          next_version |-> rec[w].next_version,
                          storage_location |-> storage_location]]
    /\ UNCHANGED <<file_versions, live, now, next_id, resp, chain, scen>>

\* lines 85-101: the INSERT runs and its id is returned
RvInsert(w) ==
    /\ rec[w].pc = "insert"
    /\ IF SchemaRejects(file_versions, rec[w].file_path, rec[w].next_version)
       THEN /\ resp' = RecordResponse(rec[w].file_path, rec[w].operation, "insert",
                                      rec[w].seen, NULL, {})
            /\ UNCHANGED <<file_versions, next_id>>
       ELSE /\ file_versions' =
                  InsertRow(file_versions, next_id, now, rec[w].file_path,
                            rec[w].next_version, rec[w].operation,
                            rec[w].content_hash, rec[w].storage_location,
                            rec[w].file_size, JsonDumps(NULL))
            /\ next_id' = next_id + 1
            /\ resp' = RecordResponse(rec[w].file_path, rec[w].operation, "none",
                                      rec[w].seen, Uuid(next_id),
                                      file_versions' \ file_versions)
    /\ rec' = [rec EXCEPT ![w] = Idle]
    /\ UNCHANGED <<store, live, now, chain, scen>>

(***************************************************************************)
(* restore_version statement by statement (lines 197-215): the pre_restore *)
(* record, the copy over the live file and the restore record are separate *)
(* awaits, the user may edit the file in between and the process may stop  *)
(* between any two of them.  done and wrote remember what the call did.    *)
(***************************************************************************)
\* a restore_version that records the restore before it writes the file
StepAfterRowFirst(step) ==
    CASE step = "pre_restore" -> "restore"
      [] step = "restore" -> "copy"
      [] step = "copy" -> "return"

\* the order of the statements: line 199, lines 202-203, lines 206-208, 210
StepAfter(step) ==
    CASE step = "pre_restore" -> "copy"
      [] step = "copy" -> "restore"
      [] step = "restore" -> "return"

RestoreSteps == {"pre_restore", "copy", "restore", "return"}

\* the UndoResponse of a call made statement by statement
RestoreAnswer(file_path, target_version, success, restored_version, message) ==
    [call |-> "restore_version", file_path |-> file_path,
     target_version |-> target_version, target_timestamp |-> NULL,
     success |-> success, restored_version |-> restored_version,
     message |-> message]

\* lines 157-197: the row is resolved and its blob looked for
RsStart(w, file_path, target_version) ==
    /\ rec[w].pc = "idle"
    /\ LET cands == ResolveTarget(file_versions, file_path, target_version, NULL)
       IN  IF cands = {}
           THEN /\ resp' = RestoreAnswer(file_path, target_version, FALSE, 0,
                                         "No version found to restore")
                /\ UNCHANGED rec
           ELSE \E row \in cands :
                   IF row.storage_location # NULL /\ store[row.storage_location].exists
                   THEN /\ rec' = [rec EXCEPT ![w] =
                                      [pc |-> "pre_restore", file_path |-> file_path,
                                       target_version |-> target_version,
                                       row |-> row, done |-> <<>>, wrote |-> NoFile]]
                        /\ UNCHANGED resp
                   ELSE /\ resp' = RestoreAnswer(file_path, target_version, FALSE,
                                                 row.version_number,
                                                 "Version content not found in storage")
                        /\ UNCHANGED rec
    /\ UNCHANGED <<file_versions, store, live, now, next_id, chain, scen>>

\* the call moves on to its next statement
RsAdvance(w, step, wrote) ==
    [rec EXCEPT ![w].pc = StepAfter(step),
                ![w].done = Append(rec[w].done, step),
                ![w].wrote = wrote]

\* line 199: await self.record_version(file_path, "pre_restore")
RsPreRestore(w) ==
    /\ rec[w].pc = "pre_restore"
    /\ \E o \in RecordOutcomes(file_versions, store, live, next_id, now,
                               rec[w].file_path, "pre_restore", NULL, "none") :
          /\ file_versions' = o.fv
          /\ store' = o.store
          /\ next_id' = o.next_id
    /\ rec' = RsAdvance(w, "pre_restore", rec[w].wrote)
    /\ UNCHANGED <<live, now, resp, chain, scen>>

\* lines 202-203: shutil.copy2(storage_location, file_path)
RsCopy(w) ==
    /\ rec[w].pc = "copy"
    /\ live' = [live EXCEPT ![rec[w].file_path] = store[rec[w].row.storage_location]]
    /\ rec' = RsAdvance(w, "copy", store[rec[w].row.storage_location])
    /\ UNCHANGED <<file_versions, store, now, next_id, resp, chain, scen>>

\* lines 206-208: await self.record_version(file_path, "restore", {...})
RsRestore(w) ==
    /\ rec[w].pc = "restore"
    /\ \E o \in RecordOutcomes(file_versions, store, live, next_id, now,
                               rec[w].file_path, "restore",
                               RestoredFrom(rec[w].row.version_number), "none") :
          /\ file_versions' = o.fv
          /\ store' = o.store
          /\ next_id' = o.next_id
    /\ rec' = RsAdvance(w, "restore", rec[w].wrote)
    /\ UNCHANGED <<live, now, resp, chain, scen>>

\* lines 210-215: the call answers
RsReturn(w) ==
    /\ rec[w].pc = "return"
    /\ resp' = RestoreAnswer(rec[w].file_path, rec[w].target_version, TRUE,
                             rec[w].row.version_number, "Restored to version")
    /\ rec' = [rec EXCEPT ![w] = Idle]
    /\ UNCHANGED <<file_versions, store, live, now, next_id, chain, scen>>

\* the process stops between two statements of a restore and is started
\* again: the call is gone, nothing it did is taken back
RsCrash(w) ==
    /\ rec[w].pc \in RestoreSteps
    /\ resp' = [call |-> "crash", file_path |-> rec[w].file_path,
                operation |-> "restore_version", seen |-> live[rec[w].file_path],
                done |-> rec[w].done]
    /\ rec' = [v \in Workers |-> Idle]
    /\ UNCHANGED <<file_versions, store, live, now, next_id, chain, scen>>

\* the process dies inside the shutil.copy2 of line 79 and is started again:
\* the call got past the dedup check, the blob was not there, the copy had
\* begun; no row is inserted and no answer is given
CrashDuringCopy(file_path, operation) ==
    LET content_hash == ComputeHash(live, file_path)
        storage_location == StorageLocation(live, file_path, content_hash)
    IN  /\ \E existing \in DedupQuery(file_versions, file_path, content_hash) :
              ~(existing # NULL /\ operation \notin DedupExempt)
        /\ storage_location # NULL
        /\ ~store[storage_location].exists
        /\ \E part \in Truncations(live[file_path].bytes) :
              store' = [store EXCEPT ![storage_location] = File(part)]
        /\ rec' = [w \in Workers |-> Idle]
        /\ resp' = [call |-> "crash", file_path |-> file_path,
                    operation |-> operation, seen |-> live[file_path]]
        /\ UNCHANGED <<file_versions, live, now, next_id, chain, scen>>

----------------------------------------------------------------------------
(***************************************************************************)
(* Specifications                                                          *)
(***************************************************************************)
Operations == {"create", "modify", "rename"}
Selectors == {NULL} \cup {Some(n) : n \in 1..MaxRows}
Times == 0..MaxTime

\* recording and restoring one file, one call at a time
Next ==
    \/ \E c \in Contents : WriteFile(PathA, c)
    \/ \E op \in Operations, f \in Faults :
          RecordVersion(PathA, op, f) /\ next_id' <= MaxRows + 1
    \/ \E v \in Selectors :
          RestoreVersion(PathA, v, NULL, NoFaults) /\ next_id' <= MaxRows + 1

Spec == Init /\ [][Next]_vars

\* recording files over the days and looking back at a directory
NextTravel ==
    \/ Tick
    \/ EditFile(PathA, ContentY)
    \/ RemoveFile(PathA)
    \/ \E op \in {"modify", "delete"} :
          RecordVersion(PathA, op, "none") /\ next_id' <= MaxRows + 1
    \/ RecordVersion(PathB, "modify", "none") /\ next_id' <= MaxRows + 1
    \/ \E d \in Directories, t \in Times : TimeTravel(d, t)

SpecTravel == InitTravel /\ [][NextTravel]_vars

\* recording absent files over the days and sweeping old versions
NextSweep ==
    \/ Tick
    \/ \E p \in Paths :
          RecordVersion(p, "modify", "none") /\ next_id' <= MaxSweepRows + 1
    \/ \E d \in {0, 1}, k \in 0..MaxKeep : CleanupOldVersions(d, k)

SpecSweep == InitPlain /\ [][NextSweep]_vars

\* two workers recording the same file at once
NextConc ==
    \/ \E c \in Contents : WriteFile(PathA, c)
    \/ \E w \in Workers : RvStart(w, PathA, "modify")
    \/ \E w \in Workers : RvDedup(w)
    \/ \E w \in Workers : RvMax(w)
    \/ \E w \in Workers : RvStore(w)
    \/ \E w \in Workers : RvInsert(w) /\ next_id' <= MaxConcRows + 1

SpecConc == InitPlain /\ [][NextConc]_vars

\* two files recorded side by side, and a history read back
NextShare ==
    \/ \E c \in Contents : WriteFile(PathA, c)
    \/ \E op \in {"modify", "rename"} :
          RecordVersion(PathA, op, "none") /\ next_id' <= MaxShareRows + 1
    \/ RecordVersion(PathB, "modify", "none") /\ next_id' <= MaxShareRows + 1
    \/ \E limit \in 1..MaxLimit, offset \in 0..MaxLimit :
          GetHistory(PathA, limit, offset)

SpecShare == InitTravel /\ [][NextShare]_vars

\* recording one file while the database and the disk fail now and then
NextFaults ==
    \/ \E c \in Contents : WriteFile(PathA, c)
    \/ \E op \in {"modify", "delete"}, f \in Faults \cup IoFaults :
          RecordVersion(PathA, op, f) /\ next_id' <= MaxRows + 1

SpecFaults == InitPlain /\ [][NextFaults]_vars

VersionSelectors == {NULL} \cup {Some(n) : n \in 0..MaxRestoreRows}
TimeSelectors == {NULL} \cup {Some(t) : t \in 0..MaxRestoreTime}

\* a day passes, up to the last day a restore may ask for
TickRestore == now < MaxRestoreTime /\ Tick

\* one file recorded over the days and restored by every kind of selector
NextRestore ==
    \/ TickRestore
    \/ \E c \in Contents : WriteFile(PathA, c)
    \/ RecordVersion(PathA, "modify", "none") /\ next_id' <= MaxRestoreRows + 1
    \/ \E v \in VersionSelectors, ts \in TimeSelectors :
          RestoreVersion(PathA, v, ts, NoFaults) /\ next_id' <= MaxRestoreRows + 1

SpecRestore == InitPlain /\ [][NextRestore]_vars

\* one file restored to a version while the database and the disk fail
NextRestoreFaults ==
    \/ \E c \in Contents : WriteFile(PathA, c)
    \/ RecordVersion(PathA, "modify", "none") /\ next_id' <= MaxRestoreRows + 1
    \/ \E n \in 1..MaxRestoreRows, f \in RestoreFaults :
          RestoreVersion(PathA, Some(n), NULL, f) /\ next_id' <= MaxRestoreRows + 1

SpecRestoreFaults == InitPlain /\ [][NextRestoreFaults]_vars

\* the failures that leave the query of restore_version alone: the nested
\* pre_restore record and the copy over the live file
CopyFaults == {f \in RestoreFaults : ~f.query /\ f.post = "none"}

\* one file restored to a version while the copy over the live file fails
NextCopyFail ==
    \/ \E c \in Contents : WriteFile(PathA, c)
    \/ RecordVersion(PathA, "modify", "none") /\ next_id' <= MaxCopyRows + 1
    \/ \E n \in 1..MaxCopyRows, f \in CopyFaults :
          RestoreVersion(PathA, Some(n), NULL, f) /\ next_id' <= MaxCopyRows + 1

SpecCopyFail == InitPlain /\ [][NextCopyFail]_vars

\* two workers recording the same file at once while the days pass
NextRace ==
    \/ Tick
    \/ \E w \in Workers : RvStart(w, PathA, "modify")
    \/ \E w \in Workers : RvDedup(w)
    \/ \E w \in Workers : RvMax(w)
    \/ \E w \in Workers : RvStore(w)
    \/ \E w \in Workers : RvInsert(w) /\ next_id' <= MaxRaceRows + 1

SpecRace == InitPlain /\ [][NextRace]_vars

\* one file recorded, restored and swept over the days, one call at a time
NextGaps ==
    \/ Tick
    \/ \E c \in Contents : WriteFile(PathA, c)
    \/ RecordVersion(PathA, "modify", "none") /\ next_id' <= MaxGapRows + 1
    \/ \E v \in {NULL} \cup {Some(n) : n \in 1..MaxGapRows} :
          RestoreVersion(PathA, v, NULL, NoFaults) /\ next_id' <= MaxGapRows + 1
    \/ \E d \in {0, 1}, k \in 0..MaxKeep : CleanupOldVersions(d, k)

SpecGaps == InitPlain /\ [][NextGaps]_vars

\* one file recorded by a service that may die while it copies a blob
NextCrash ==
    \/ \E c \in Contents : WriteFile(PathA, c)
    \/ RecordVersion(PathA, "modify", "none") /\ next_id' <= MaxCrashRows + 1
    \/ CrashDuringCopy(PathA, "modify")

SpecCrash == InitPlain /\ [][NextCrash]_vars

\* one file restored statement by statement, edited in between, by a
\* service that may stop at any statement
NextSteps ==
    \/ \E c \in Contents : WriteFile(PathA, c)
    \/ RecordVersion(PathA, "modify", "none") /\ next_id' <= MaxStepRows + 1
    \/ \E n \in 1..MaxStepRows : RsStart("w1", PathA, Some(n))
    \/ RsPreRestore("w1") /\ next_id' <= MaxStepRows + 1
    \/ RsCopy("w1")
    \/ RsRestore("w1") /\ next_id' <= MaxStepRows + 1
    \/ RsReturn("w1")
    \/ RsCrash("w1")

SpecSteps == InitPlain /\ [][NextSteps]_vars

\* two files recorded over the days and a directory looked at again and again
NextView ==
    \/ Tick
    \/ EditFile(PathA, ContentY)
    \/ \E p \in Paths :
          RecordVersion(p, "modify", "none") /\ next_id' <= MaxViewRows + 1
    \/ \E d \in Directories, t \in Times : TimeTravel(d, t)

SpecView == InitTravel /\ [][NextView]_vars

\* directory strings with the characters LIKE reads as wildcards
WildDirectories == {<<"d">>, <<"_">>, <<"%", "b">>}

\* the same, the directory asked for holding % or _
NextWild ==
    \/ Tick
    \/ EditFile(PathA, ContentY)
    \/ \E p \in Paths :
          RecordVersion(p, "modify", "none") /\ next_id' <= MaxViewRows + 1
    \/ \E d \in WildDirectories, t \in Times : TimeTravel(d, t)

SpecWild == InitTravel /\ [][NextWild]_vars

\* two files, each recorded and restored, one call at a time
NextPaths ==
    \/ \E p \in Paths, c \in Contents : WriteFile(p, c)
    \/ \E p \in Paths :
          RecordVersion(p, "modify", "none") /\ next_id' <= MaxPathRows + 1
    \/ \E p \in Paths, n \in 1..MaxPathRows :
          RestoreVersion(p, Some(n), NULL, NoFaults) /\ next_id' <= MaxPathRows + 1

SpecPaths == InitPlain /\ [][NextPaths]_vars

----------------------------------------------------------------------------
(***************************************************************************)
(* Properties                                                              *)
(***************************************************************************)
IsRecord == resp.call = "record_version"
IsRestore == resp.call = "restore_version"
IsTimeTravel == resp.call = "time_travel"
IsCleanup == resp.call = "cleanup_old_versions"

RowById(id) == CHOOSE r \in file_versions : r.id = id

\* the rows of the path that carry the content the last record call saw
RowsWithSeenContent ==
    {r \in RowsOf(file_versions, resp.file_path) :
        r.content_hash = Sha256(resp.seen.bytes)}

C2_Monotonic ==
    (IsRecord /\ resp.ret # NULL /\ chain[resp.file_path].n >= 1) =>
        RowById(resp.ret).version_number = chain[resp.file_path].n

\* C4: a successful restore_version(path, target_version = N) on a path whose
\* highest version number was V appends a pre_restore row with the digest of
\* the live file as it was, and after it a restore row with the digest of
\* version N, both numbered above V.
C4_RestoreSafety ==
    (IsRestore /\ resp.success /\ Truthy(resp.target_version)) =>
        \E pre \in resp.added, post \in resp.added :
            /\ pre.operation = "pre_restore"
            /\ pre.content_hash =
                  (IF resp.before.exists THEN Sha256(resp.before.bytes) ELSE NULL)
            /\ post.operation = "restore"
            /\ \E target \in RowsOf(file_versions, resp.file_path) \ resp.added :
                  /\ target.version_number = resp.target_version[1]
                  /\ post.content_hash = target.content_hash
            /\ resp.top < pre.version_number
            /\ pre.version_number < post.version_number

\* C5: from an empty catalog, create X gives version 1, modify X gives
\* version 1 again and no new row, modify Y gives version 2, and restoring
\* the previous version puts X back and leaves exactly the rows 1, 2,
\* 3 (pre_restore) and 4 (restore).
C5_Scenario ==
    /\ scen = 1 => RowById(resp.ret).version_number = 1
    /\ scen = 2 => RowById(resp.ret).version_number = 1 /\ resp.added = {}
    /\ scen = 3 => RowById(resp.ret).version_number = 2
    /\ scen = 4 =>
          /\ resp.success
          /\ resp.after = File(ContentX)
          /\ Cardinality(RowsOf(file_versions, PathA)) = 4
          /\ {r.version_number : r \in RowsOf(file_versions, PathA)} = 1..4
          /\ \A r \in RowsOf(file_versions, PathA) :
                /\ r.version_number = 3 => r.operation = "pre_restore"
                /\ r.version_number = 4 => r.operation = "restore"

\* the rows of a path at or before the target time of the last time_travel
RowsAsOf(file_path) ==
    {r \in RowsOf(file_versions, file_path) : r.timestamp <= resp.target_time}

\* the highest-numbered of them
LatestAsOf(file_path) ==
    {r \in RowsAsOf(file_path) :
        \A q \in RowsAsOf(file_path) : q.version_number <= r.version_number}

Listed(file_path) ==
    \E i \in 1..Len(resp.result.files) : resp.result.files[i].file_path = file_path

IsPrefix(d, str) == Len(d) <= Len(str) /\ SubSeq(str, 1, Len(d)) = d

\* C6: time_travel does not list a path whose highest-numbered row at or
\* before the target time is a delete.
C6_OmitsDeleted ==
    IsTimeTravel =>
        \A p \in Paths :
            (RowsAsOf(p) # {} /\ \A r \in LatestAsOf(p) : r.operation = "delete")
                => ~Listed(p)

\* C7: time_travel lists each path at most once, with the version, size and
\* timestamp of the path's highest-numbered row at or before the target
\* time; a path under the directory whose such row is no delete is listed.
C7_OneRowPerPath ==
    IsTimeTravel =>
        LET files == resp.result.files
        IN  /\ \A i, j \in 1..Len(files) :
                  files[i].file_path = files[j].file_path => i = j
            /\ \A i \in 1..Len(files) :
                  \E r \in LatestAsOf(files[i].file_path) :
                      /\ files[i].version = r.version_number
                      /\ files[i].size = r.file_size
                      /\ files[i].timestamp = IsoFormat(r.timestamp)
            /\ \A p \in Paths :
                  (/\ IsPrefix(resp.directory, p)
                   /\ \E r \in LatestAsOf(p) : r.operation # "delete") => Listed(p)

\* a listing of two paths as of a day when one of them had a later version
\* still to come
C7_Witness ==
    /\ IsTimeTravel
    /\ Len(resp.result.files) = 2
    /\ \E i \in 1..2 :
          /\ resp.result.files[i].size = Len(ContentX)
          /\ \E r \in RowsOf(file_versions, resp.result.files[i].file_path) :
                /\ r.timestamp > resp.target_time
                /\ r.file_size = Len(ContentY)

\* the catalog as the last cleanup_old_versions found it
BeforeCleanup == file_versions \cup resp.removed

\* the k highest-numbered rows of each path
TopRows(fv, k) ==
    {r \in fv :
        Cardinality({q \in RowsOf(fv, r.file_path) :
                        q.version_number > r.version_number}) < k}

\* C8: cleanup_old_versions deletes none of the k = max_versions_per_file
\* highest-numbered rows of any path, whatever their age.
C8_RetentionFloor ==
    IsCleanup =>
        resp.removed \cap TopRows(BeforeCleanup, resp.max_versions_per_file) = {}

\* a sweep that deleted a row and kept rows just as old
C8_Witness ==
    /\ IsCleanup
    /\ resp.max_versions_per_file >= 1
    /\ \E d \in resp.removed :
          \E r \in TopRows(BeforeCleanup, resp.max_versions_per_file) :
              /\ r.file_path = d.file_path
              /\ r.timestamp <= d.timestamp
              /\ r \in file_versions

\* C9: cleanup_old_versions deletes exactly the rows older than the cutoff
\* whose version number is <= V - max_versions_per_file, V the highest
\* version number of the row's path.
C9_ExactEligibility ==
    IsCleanup =>
        resp.removed =
            {r \in BeforeCleanup :
                /\ r.timestamp < resp.result.cutoff_date[2]
                /\ r.version_number <=
                      MaxVersionQuery(BeforeCleanup, r.file_path)
                          - resp.max_versions_per_file}

\* C10: deleted_versions is the number of rows the call removed.
C10_DeletedCount ==
    IsCleanup => resp.result.deleted_versions = PyInt(Cardinality(resp.removed))

\* C3: no two rows of a path carry the same version number.
C3_UniqueVersionNumbers ==
    \A r1, r2 \in file_versions :
        (r1.file_path = r2.file_path /\ r1.version_number = r2.version_number)
            => r1 = r2

IsGetHistory == resp.call = "get_history"

\* C11: rows of any paths with the same content digest carry the same
\* storage location, and the store holds that content in one blob only, the
\* one at that location.
C11_OneBlobPerContent ==
    /\ \A r1, r2 \in file_versions :
          (r1.content_hash # NULL /\ r1.content_hash = r2.content_hash)
              => r1.storage_location = r2.storage_location
    /\ \A r \in file_versions :
          r.content_hash # NULL =>
              \A l \in BlobLocations :
                  (store[l].exists /\ Sha256(store[l].bytes) = r.content_hash)
                      <=> l = r.storage_location

\* two paths recorded with the same bytes
C11_Witness ==
    \E r1, r2 \in file_versions :
        /\ r1.file_path # r2.file_path
        /\ r1.content_hash # NULL
        /\ r1.content_hash = r2.content_hash
        /\ store[r1.storage_location].exists

\* C12: get_history returns the path's rows by strictly descending version
\* number, without the offset highest and at most limit of them, and total
\* is the number of rows of the path whatever limit and offset are.
C12_HistoryPage ==
    IsGetHistory =>
        LET rows == RowsOf(file_versions, resp.file_path)
            Rank(r) == Cardinality({q \in rows : q.version_number > r.version_number})
            page == {r \in rows : /\ Rank(r) >= resp.offset
                                   /\ Rank(r) < resp.offset + resp.limit}
            versions == resp.versions
        IN  /\ resp.total = Cardinality(rows)
            /\ Len(versions) <= resp.limit
            /\ \A i, j \in 1..Len(versions) :
                  i < j => versions[i].version_number > versions[j].version_number
            /\ {versions[i].id : i \in 1..Len(versions)} = {r.id : r \in page}
            /\ \A i \in 1..Len(versions) :
                  \E r \in page : /\ r.id = versions[i].id
                                   /\ r.version_number = versions[i].version_number
                                   /\ r.file_path = resp.file_path

\* a page cut out of the middle of a longer history
C12_Witness ==
    /\ IsGetHistory
    /\ resp.offset >= 1
    /\ Len(resp.versions) >= 1
    /\ resp.total > resp.offset + Len(resp.versions)

\* C13: record_version lets no exception out: whatever fails (the file
\* read, the blob copy, a catalog query or the insert) it returns the id of
\* a row of the path or None; and when the insert failed the catalog is as
\* it was, so the next version number of the path is what it was.
C13_NeverRaises ==
    [][IsRecord' =>
          /\ \/ resp'.ret = NULL
             \/ \E r \in RowsOf(file_versions', resp'.file_path) : r.id = resp'.ret
          /\ (resp'.ret = NULL /\ resp'.fault = "insert") =>
                /\ file_versions' = file_versions
                /\ NextVersion(file_versions', resp'.file_path)
                      = NextVersion(file_versions, resp'.file_path)]_vars

\* an insert that failed on a path with a history, the file being there
C13_Witness ==
    /\ IsRecord
    /\ resp.fault = "insert"
    /\ resp.ret = NULL
    /\ resp.seen.exists
    /\ RowsOf(file_versions, resp.file_path) # {}

\* the rows of the path as the last restore_version found them
BeforeRestore == RowsOf(file_versions \ resp.added, resp.file_path)

\* the last restore_version changed nothing
NoSideEffects ==
    /\ resp.added = {}
    /\ resp.stored = {}
    /\ resp.after = resp.before
    /\ ~resp.overwrote

\* no row answers the selector of the last restore_version: an unknown
\* version number, no row at or before the timestamp, or fewer than two
\* rows for the implicit selector
NoRowAnswers ==
    IF Truthy(resp.target_version)
    THEN \A r \in BeforeRestore : r.version_number # resp.target_version[1]
    ELSE IF resp.target_version = NULL /\ resp.target_timestamp # NULL
    THEN \A r \in BeforeRestore : r.timestamp > resp.target_timestamp[1]
    ELSE /\ resp.target_version = NULL /\ resp.target_timestamp = NULL
         /\ Cardinality(BeforeRestore) < 2

C15_NoContentNoEffect ==
    IsRestore =>
        \A row \in resp.resolved :
            (\/ row.content_hash = NULL
             \/ row.storage_location = NULL
             \/ ~store[row.storage_location].exists)
                => /\ ~resp.success
                   /\ resp.after = resp.before
                   /\ ~resp.overwrote
                   /\ resp.added = {}

\* a row recorded while the file was missing, asked back when the file holds
\* bytes no row has
C15_Witness ==
    /\ IsRestore
    /\ \E row \in resp.resolved : row.content_hash = NULL
    /\ resp.before.exists
    /\ \A r \in BeforeRestore : r.content_hash # Sha256(resp.before.bytes)
    /\ resp.message = "Version content not found in storage"

\* C16: when restore_version returns success = true with restored_version
\* = n, the live file holds the content recorded for version n of the path,
\* and n is the version number of the row the selector resolved to.
C16_RestoredContent ==
    (IsRestore /\ resp.success) =>
        /\ resp.after.exists
        /\ \E row \in resp.resolved :
              /\ row \in BeforeRestore
              /\ row.version_number = resp.restored_version
              /\ row.content_hash = Sha256(resp.after.bytes)
              /\ row.file_size = Len(resp.after.bytes)

\* a restore that changed the bytes of the live file
C16_Witness ==
    /\ IsRestore /\ resp.success
    /\ resp.before.exists
    /\ resp.after # resp.before
    /\ resp.restored_version < resp.top

\* C17: whenever restore_version overwrites the live file, the bytes the
\* file held just before are, at that moment, the content of a blob that a
\* catalog row of the path refers to, also when the pre_restore record
\* failed.
C17_SafetyFirst ==
    (IsRestore /\ resp.overwrote /\ resp.before.exists) =>
        \A snap \in resp.at_copy :
            \E r \in RowsOf(snap.fv, resp.file_path) :
                /\ r.storage_location # NULL
                /\ snap.store[r.storage_location] = resp.before

\* the rows of the path at or before the timestamp selector, the latest of
\* them, and of those the highest-numbered
LatestAtOrBefore ==
    LET m == {r \in BeforeRestore : r.timestamp <= resp.target_timestamp[1]}
        latest == {r \in m : \A q \in m : q.timestamp <= r.timestamp}
    IN  {r \in latest : \A q \in latest : q.version_number <= r.version_number}

\* C18: restore by timestamp resolves to the row with the greatest
\* timestamp at or before the selector, and among rows sharing that
\* timestamp to the one with the highest version number.
C18_TimestampTies ==
    (IsRestore /\ resp.target_version = NULL /\ resp.target_timestamp # NULL
              /\ ~resp.faults.query) =>
        resp.resolved = LatestAtOrBefore

\* the rows of the path with exactly one row numbered above them
SecondHighest ==
    {r \in BeforeRestore :
        Cardinality({q \in BeforeRestore : q.version_number > r.version_number}) = 1}

\* C19: restore with neither version nor timestamp resolves to the row with
\* the second-highest version number, never the highest; on a path with one
\* row it resolves to nothing.
C19_ImplicitPrevious ==
    (IsRestore /\ resp.target_version = NULL /\ resp.target_timestamp = NULL) =>
        /\ resp.resolved = SecondHighest
        /\ \A r \in resp.resolved : r.version_number < resp.top
        /\ Cardinality(BeforeRestore) = 1 =>
              (resp.resolved = {} /\ ~resp.success /\ NoSideEffects)

\* the previous of three versions put back
C19_Witness ==
    /\ IsRestore /\ resp.target_version = NULL /\ resp.target_timestamp = NULL
    /\ resp.success
    /\ Cardinality(BeforeRestore) = 3
    /\ resp.restored_version = 2
    /\ resp.after # resp.before

\* C20: when a version number n is supplied, 0 included, restore_version
\* resolves to the row (path, n) or fails with no version found; it never
\* resolves to a row of another number and never falls back to the
\* timestamp or the previous-version rule.
C20_ExplicitVersion ==
    (IsRestore /\ resp.target_version # NULL /\ ~resp.faults.query) =>
        /\ \A r \in resp.resolved : r.version_number = resp.target_version[1]
        /\ resp.resolved = {} =>
              (~resp.success /\ resp.message = "No version found to restore")

\* the last restore_version reached the copy over the live file and the
\* copy failed
CopyFailed ==
    /\ IsRestore
    /\ resp.faults.copy /\ ~resp.faults.query
    /\ \E row \in resp.resolved :
          row.storage_location # NULL /\ store[row.storage_location].exists

\* the pre_restore rows the last restore_version appended
Snapshots == {r \in resp.added : r.operation = "pre_restore"}

\* C21: when the copy over the live file fails after the pre_restore
\* snapshot was recorded, restore_version returns success = false, the
\* pre_restore row stays in the catalog with its blob holding the bytes the
\* file had, no restore row is appended and no row is taken back.
C21_CopyFailureKeepsSnapshot ==
    CopyFailed =>
        /\ ~resp.success
        /\ resp.removed = {}
        /\ \A r \in resp.added : r.operation # "restore"
        /\ \A r \in Snapshots :
              /\ r \in file_versions
              /\ r.storage_location # NULL => store[r.storage_location] = resp.before

\* a failed copy after a snapshot of bytes no row had
C21_Witness ==
    /\ CopyFailed
    /\ \E r \in Snapshots :
          /\ r.storage_location # NULL
          /\ store[r.storage_location] = resp.before
          /\ r.version_number = resp.top + 1

\* C22: when the copy over the live file fails after the snapshot succeeded,
\* the result carries the version number of the pre_restore snapshot.
C22_FailureNamesSnapshot ==
    CopyFailed =>
        \A r \in Snapshots : resp.restored_version = r.version_number

\* C23: in every reachable state, also while record_version calls on one
\* path run at once, of two rows of a path the one with the greater version
\* number has a timestamp later than or equal to the other's.
C23_VersionTimestampOrder ==
    \A r1, r2 \in file_versions :
        (r1.file_path = r2.file_path /\ r1.version_number > r2.version_number)
            => r1.timestamp >= r2.timestamp

\* the version numbers a path has rows for
VersionNumbers(file_path) ==
    {r.version_number : r \in RowsOf(file_versions, file_path)}

\* every number between two version numbers of the path is one too
Contiguous ==
    \A p \in Paths : \A lo, hi \in VersionNumbers(p) :
        \A n \in lo..hi : n \in VersionNumbers(p)

\* a row that stays keeps its version number, and the rows of a path that go
\* are numbered below every row of the path that stays
PrefixRemoved ==
    /\ \A r \in file_versions, q \in file_versions' :
          r.id = q.id => q.version_number = r.version_number
    /\ \A r \in file_versions \ file_versions', q \in file_versions' :
          r.file_path = q.file_path => r.version_number < q.version_number

\* C24: after any sequence of record_version, restore_version and
\* cleanup_old_versions calls the version numbers of each path form a
\* contiguous interval ending at the highest one, and every surviving row
\* keeps its version number: a sweep removes a prefix and renumbers nothing.
C24_NoGaps == []Contiguous /\ [][PrefixRemoved]_vars

\* a sweep has cut the front of a history that went on growing
C24_Witness ==
    /\ IsCleanup
    /\ resp.removed # {}
    /\ Cardinality(VersionNumbers(PathA)) >= 2
    /\ 1 \notin VersionNumbers(PathA)

\* C25: in every reachable state, two rows of a path with consecutive
\* version numbers share a non-null content digest only if the later row's
\* operation is delete, move or restore, whatever operation strings the
\* record endpoint was given.
C25_ConsecutiveDigests ==
    \A r1, r2 \in file_versions :
        (/\ r1.file_path = r2.file_path
         /\ r2.version_number = r1.version_number + 1
         /\ r1.content_hash # NULL
         /\ r1.content_hash = r2.content_hash)
            => r2.operation \in {"delete", "move", "restore"}

\* the rows of the path before the last record call, and the highest-numbered
\* of them
BeforeRecord == RowsOf(file_versions, resp.file_path) \ resp.added
LatestBeforeRecord ==
    {r \in BeforeRecord : \A q \in BeforeRecord : q.version_number <= r.version_number}

\* C26: record_version returns an existing version id without inserting a
\* row if and only if the digest of the path's highest-numbered row equals
\* the digest just computed and the operation is create or modify; in every
\* other case it appends a row and returns the new row's id.
C26_DedupRule ==
    (IsRecord /\ resp.fault = "none" /\ resp.seen.exists) =>
        IF /\ resp.operation \in SoftOps
           /\ \E r \in LatestBeforeRecord : r.content_hash = Sha256(resp.seen.bytes)
        THEN /\ resp.added = {}
             /\ \E r \in BeforeRecord : r.id = resp.ret
        ELSE /\ Cardinality(resp.added) = 1
             /\ \E r \in resp.added : r.id = resp.ret

\* C27: every row with operation delete has no content digest and no storage
\* location, also when the file was on disk as the delete was recorded.
C27_DeleteRowsEmpty ==
    \A r \in file_versions :
        r.operation = "delete" =>
            r.content_hash = NULL /\ r.storage_location = NULL

\* the last record_version found the file missing or could not read it, and
\* the database answered every statement
RecordedUnread ==
    /\ IsRecord
    /\ resp.fault \in {"none", "read"}
    /\ ~resp.seen.exists \/ resp.fault = "read"

\* C28: when the file is missing or unreadable, record_version appends, for
\* any operation, one row with no digest and no storage location and returns
\* its id; dedup never holds such a row back, also when the latest row of the
\* path has no digest either.
C28_UnreadAlwaysAppends ==
    RecordedUnread =>
        /\ Cardinality(resp.added) = 1
        /\ \A r \in resp.added :
              /\ r.id = resp.ret
              /\ r.file_path = resp.file_path
              /\ r.operation = resp.operation
              /\ r.content_hash = NULL
              /\ r.storage_location = NULL
              /\ \A q \in BeforeRecord : q.version_number < r.version_number

\* an unreadable file recorded as modify right after a row without a digest
C28_Witness ==
    /\ RecordedUnread
    /\ resp.operation = "modify"
    /\ resp.seen.exists
    /\ \E r \in LatestBeforeRecord : r.content_hash = NULL /\ r.operation = "modify"
    /\ resp.added # {}

\* C29: in every reachable state the bytes stored at the location derived
\* from a digest hash to that digest, also when the live file is modified
\* between the hash and the copy of a record_version call and when two
\* recorders write one location at once.
C29_BlobIntegrity ==
    \A l \in BlobLocations :
        store[l].exists => StoragePath(Sha256(store[l].bytes)) = l

\* C30: no partial blob is ever addressable: when the process dies during the
\* blob write of record_version, the location derived from the digest is
\* missing or holds the complete bytes after the restart, and a later record
\* of the same content leaves the complete bytes there.
C30_NoPartialBlob ==
    /\ \A c \in Contents :
          store[StoragePath(Sha256(c))].exists
              => store[StoragePath(Sha256(c))].bytes = c
    /\ (IsRecord /\ resp.ret # NULL /\ resp.seen.exists)
          => store[StoragePath(Sha256(resp.seen.bytes))] = resp.seen

\* a step that takes rows out of the catalog is a cleanup_old_versions call
\* answering for exactly those rows
OnlyCleanupRemoves ==
    \/ file_versions \subseteq file_versions'
    \/ /\ resp'.call = "cleanup_old_versions"
       /\ resp'.removed = file_versions \ file_versions'

\* C31: record_version and restore_version never modify or delete a catalog
\* row, each call only inserts rows; the only operation that removes rows is
\* cleanup_old_versions.
C31_AppendOnly == [][OnlyCleanupRemoves]_vars

\* a restore that appended to a history a sweep had cut before
C31_Witness ==
    /\ IsRestore
    /\ resp.added # {}
    /\ RowsOf(file_versions, resp.file_path) \ resp.added # {}
    /\ 1 \notin {r.version_number : r \in file_versions}

\* a cleanup_old_versions call of one of the sweeps the service is asked for
CleanupStep == \E d \in {0, 1}, k \in 0..MaxKeep : CleanupOldVersions(d, k)

\* C32: cleanup_old_versions leaves the blob store and all live files as they
\* were: it removes catalog rows only, and the blobs only deleted rows
\* referred to stay in the store.
C32_SweepKeepsBlobs ==
    [][CleanupStep =>
          /\ store' = store
          /\ live' = live
          /\ \A r \in file_versions \ file_versions' :
                r.storage_location # NULL => store'[r.storage_location].exists]_vars

\* a sweep removed the only rows that referred to a blob, and the blob is there
C32_Witness ==
    /\ IsCleanup
    /\ \E d \in resp.removed :
          /\ d.storage_location # NULL
          /\ store[d.storage_location].exists
          /\ \A r \in file_versions : r.storage_location # d.storage_location

\* the rows that say a restore from some version happened
RestoreRows(fv) == {r \in fv : r.operation = "restore" /\ r.metadata # NULL}

\* a restore row is inserted by a call that had recorded pre_restore first
\* and then finished writing the bytes of the version the row names
InsertedAfterOverwrite ==
    \A r \in RestoreRows(file_versions' \ file_versions) :
        \E w \in Workers :
            /\ rec[w].pc = "restore"
            /\ r.file_path = rec[w].file_path
            /\ JsonLoads(r.metadata) = RestoredFrom(rec[w].row.version_number)
            /\ rec[w].done = <<"pre_restore", "copy">>
            /\ rec[w].wrote = store[rec[w].row.storage_location]

\* C33: in every reachable state, also when the process stopped between the
\* steps of a restore, a row with operation restore and metadata
\* restored_from_version = n exists only if the overwrite of the live file
\* with version n's bytes was complete before the row was inserted and the
\* pre_restore record was attempted before the overwrite began.
C33_RestoreStepOrder == [][InsertedAfterOverwrite]_vars

\* a restore row is in the catalog and a later restore stopped after it
\* wrote the file, before its own restore record
C33_Witness ==
    /\ RestoreRows(file_versions) # {}
    /\ resp.call = "crash"
    /\ resp.operation = "restore_version"
    /\ resp.done = <<"pre_restore", "copy">>

\* a time_travel call of one of the views the service is asked for
TimeTravelStep == \E d \in Directories, t \in Times : TimeTravel(d, t)

\* what the last time_travel returned: ascending paths, file_count the
\* number of files listed, and the one answer the same call has now
SortedAnswer ==
    IsTimeTravel =>
        /\ \A i, j \in 1..Len(resp.result.files) :
              i < j => StrLess(resp.result.files[i].file_path,
                               resp.result.files[j].file_path)
        /\ resp.result.file_count = Len(resp.result.files)
        /\ TimeTravelOutcomes(file_versions, resp.directory, resp.target_time)
              = {resp.result}

\* C34: time_travel is a pure read ordered by ascending file path: it changes
\* neither the catalog, the blob store nor a live file, a second call with
\* the same arguments and no write in between returns the same list, and
\* file_count is the number of files listed.
C34_PureSortedRead ==
    /\ []SortedAnswer
    /\ [][TimeTravelStep =>
             UNCHANGED <<file_versions, store, live, next_id>>]_vars

\* a view that lists two paths
C34_Witness ==
    /\ IsTimeTravel
    /\ resp.result.file_count = 2
    /\ resp.result.files[1].file_path = PathA
    /\ resp.result.files[2].file_path = PathB

\* C36: time_travel matches directories as flat string prefixes: a path with
\* rows at or before the target time is listed if and only if the directory
\* string is a literal prefix of the path string, for every directory string,
\* also one holding the characters % and _.
C36_LiteralPrefix ==
    IsTimeTravel =>
        \A p \in Paths :
            Listed(p) <=> (IsPrefix(resp.directory, p) /\ RowsAsOf(p) # {})

\* the last call was a successful restore_version that changed the bytes of
\* the live file, nothing has touched the file since, and the step is a
\* restore_version on the same path with no selector
UndoOfRestore(p) ==
    /\ IsRestore
    /\ resp.file_path = p
    /\ resp.success
    /\ resp.before.exists
    /\ resp.after # resp.before
    /\ live[p] = resp.after
    /\ RestoreVersion(p, NULL, NULL, NoFaults)

\* C35: after a successful restore_version that changed the live file from Y
\* to X, a restore_version with no selector made at once on the same path
\* succeeds and brings the file back to Y.
C35_RestoreUndoable ==
    [][\A p \in Paths :
          UndoOfRestore(p) => (resp'.success /\ live'[p] = resp.before)]_vars

\* C37: in every reachable state every catalog row with a storage location
\* points at a blob that is in the store: the blob is written before the row
\* is inserted and nothing removes blobs.
C37_RowsPointAtBlobs ==
    \A r \in file_versions :
        r.storage_location # NULL => store[r.storage_location].exists

\* a row was appended for content whose blob an earlier, failed call had left
C37_Witness ==
    /\ IsRecord
    /\ resp.fault = "none"
    /\ \E r \in resp.added :
          /\ r.storage_location # NULL
          /\ store[r.storage_location] = resp.seen
          /\ \A q \in file_versions \ {r} : q.storage_location # r.storage_location
    /\ \E l \in BlobLocations :
          store[l].exists /\ \A q \in file_versions : q.storage_location # l

\* the last sweep left the highest-numbered row of every path in place
TopRowKept ==
    IsCleanup =>
        \A r \in TopRows(BeforeCleanup, 1) : r \in file_versions

\* the highest version number of a path never goes down, and a new row is
\* numbered above every row of its path
NumbersGoUp ==
    /\ \A p \in Paths :
          MaxVersionQuery(file_versions', p) >= MaxVersionQuery(file_versions, p)
    /\ \A r \in file_versions' \ file_versions :
          r.version_number > MaxVersionQuery(file_versions, r.file_path)

\* C38: for every max_versions_per_file >= 0 cleanup_old_versions leaves the
\* highest-numbered row of every path, so a path with rows before a sweep has
\* rows after it, and the next record_version on the path gets a number above
\* every number the path ever used: no number is used again after a sweep.
C38_NoReuseAfterSweep == []TopRowKept /\ [][NumbersGoUp]_vars

\* a row recorded after a sweep that removed rows of its path
C38_Witness ==
    /\ IsRecord
    /\ \E r \in resp.added :
          /\ r.version_number >= 3
          /\ \E n \in 1..(r.version_number - 1) :
                n \notin {q.version_number : q \in RowsOf(file_versions, r.file_path)}

\* a record_version or restore_version call on path p
CallOn(p) ==
    \/ RecordVersion(p, "modify", "none")
    \/ \E n \in 1..MaxPathRows : RestoreVersion(p, Some(n), NULL, NoFaults)

\* C39: record_version(p, ...) and restore_version(p, ...) leave every row of
\* every other path and every other path's live file as they were; of the
\* state the paths share they only add blobs to the store.
C39_PathIsolation ==
    [][\A p \in Paths :
          CallOn(p) =>
              /\ \A q \in Paths \ {p} :
                    /\ RowsOf(file_versions', q) = RowsOf(file_versions, q)
                    /\ live'[q] = live[q]
              /\ \A l \in BlobLocations :
                    store[l].exists => store'[l] = store[l]]_vars

\* a restore overwrote one file and appended to its history while the other
\* path had rows and a file of other bytes
C39_Witness ==
    /\ IsRestore
    /\ resp.success
    /\ resp.after # resp.before
    /\ resp.added # {}
    /\ \E q \in Paths \ {resp.file_path} :
          /\ RowsOf(file_versions, q) # {}
          /\ live[q].exists
          /\ live[q] # live[resp.file_path]

====
